---- MODULE Spec2Model ----
(***************************************************************************)
(* A model of the pact-python-v3 native binding (src/pact-python-v3/src/   *)
(* lib.rs): the PactNative interaction builder, the MockServerHandle       *)
(* operations on the process-wide MANAGER registry, and the value codec.   *)
(*                                                                         *)
(* Conventions.                                                            *)
(*  - Option<T> is a sequence of length 0 (None) or 1 (Some(x)).           *)
(*  - HashMap / BTreeMap / serde_json::Map is a set of <<key, value>>      *)
(*    pairs with unique keys (equality ignores iteration order).           *)
(*  - A Python object is a record tagged by its type name "t".             *)
(*  - A serde_json::Value is a record tagged by its variant "j".           *)
(*  - Bytes are a tagged record naming what was serialised into them.      *)
(*  - A callback result is [i |-> the interaction as the callback left it, *)
(*    err |-> "" for Ok(None) or the name of the raised exception].        *)
(***************************************************************************)
EXTENDS Integers, Sequences, FiniteSets, TLC

VARIABLES
  pact,         \* PactNative.pact: the RequestResponsePact being built
  interaction,  \* PactNative.interaction: Option<usize>, the cursor
  servers,      \* MANAGER's id -> mock server entry map, as a set of entries
  nextId,       \* number of ids Uuid::new_v4 has produced so far, plus one
  ret,          \* the last call: its name, argument id, and what it returned
  responded,    \* history: indices of the interactions will_respond_with ran on
  started,      \* history: the ids of the handles start_mock_server returned
  calls,        \* history: the number of calls made so far
  scenario,     \* the arguments of the scenario being played (SpecScenario)
  lock,         \* MANAGER's mutex: the thread that holds it, as an Option
  threads       \* the callers of the registry: where each is in its call

vars ==
  <<pact, interaction, servers, nextId, ret, responded, started, calls, scenario,
    lock, threads>>

\* ------------------------------------------------------------------ bounds
\* the number of calls (builder verbs, handle operations, requests served) in
\* a run
MaxCalls == 5

\* --------------------------------------------------------- program constants
U16Max == 65535

\* ------------------------------------------------------------- Python values
PyNone == [t |-> "NoneType"]
PyStr(s) == [t |-> "str", s |-> s]
PyBool(b) == [t |-> "bool", b |-> b]
PyInt(n) == [t |-> "int", n |-> n]
PyHugeInt == [t |-> "int", huge |-> "2^63"]
PyFloat(f) == [t |-> "float", f |-> f]
PyList(items) == [t |-> "list", items |-> items]
PyTuple(items) == [t |-> "tuple", items |-> items]
PyDict(items) == [t |-> "dict", items |-> items]
PyObject == [t |-> "object"]

\* cast_as::<PyLong>: bool is a subclass of int
IsPyLong(v) == v.t \in {"int", "bool"}

\* status.extract(py)? into response.status: u16
extract_u16(v) ==
  IF v.t = "bool" THEN <<IF v.b THEN 1 ELSE 0>>
  ELSE IF v.t = "int" /\ "n" \in DOMAIN v /\ v.n >= 0 /\ v.n <= U16Max THEN <<v.n>>
  ELSE <<>>

\* val.extract::<i64>(py)
extract_i64(v) ==
  IF v.t = "bool" THEN <<IF v.b THEN 1 ELSE 0>>
  ELSE IF "n" \in DOMAIN v THEN <<v.n>>
  ELSE <<>>

\* ------------------------------------------------------------ map helpers
MapKeys(m) == {p[1] : p \in m}
MapGet(m, k) == (CHOOSE p \in m : p[1] = k)[2]
MapInsert(m, k, v) == {p \in m : p[1] # k} \cup {<<k, v>>}

\* header names compare case-insensitively in lookups
Lower(s) ==
  IF s \in {"Content-Type", "content-type", "CONTENT-TYPE"} THEN "content-type"
  ELSE s

\* ------------------------------------------------------------- value codec
JNull == [j |-> "Null"]
JString(s) == [j |-> "String", s |-> s]
JBool(b) == [j |-> "Bool", b |-> b]
JInt(n) == [j |-> "I64", n |-> n]
JFloat(f) == [j |-> "F64", f |-> f]
JArray(items) == [j |-> "Array", items |-> items]
JObject(m) == [j |-> "Object", m |-> m]

\* a float is named by its literal; these are the ones that are not finite
NonFinite == {"inf", "-inf", "nan"}

\* json!(f64): Number::from_f64 has no number for a float that is not finite,
\* and the value is Null
json_f64(f) == IF f \in NonFinite THEN JNull ELSE JFloat(f)

ConvOk(v) == [ok |-> TRUE, v |-> v]
ConvErr(e) == [ok |-> FALSE, e |-> e]

RECURSIVE pyobj_to_json(_)
RECURSIVE pyobj_seq_to_json(_)
RECURSIVE pyobj_items_to_json(_)

\* the element loop of the list / tuple / sequence branches: the first
\* failing element aborts the conversion
pyobj_seq_to_json(items) ==
  IF items = <<>> THEN ConvOk(<<>>)
  ELSE LET h == pyobj_to_json(Head(items)) IN
       IF ~h.ok THEN h
       ELSE LET r == pyobj_seq_to_json(Tail(items)) IN
            IF ~r.ok THEN r ELSE ConvOk(<<h.v>> \o r.v)

\* the item loop of the dict branch: value first, then the key cast
pyobj_items_to_json(items) ==
  IF items = <<>> THEN ConvOk({})
  ELSE LET k == Head(items)[1]
           h == pyobj_to_json(Head(items)[2]) IN
       IF ~h.ok THEN h
       ELSE IF k.t # "str" THEN ConvErr("TypeError")
       ELSE LET r == pyobj_items_to_json(Tail(items)) IN
            IF ~r.ok THEN r
            ELSE ConvOk(IF k.s \in MapKeys(r.v) THEN r.v
                        ELSE r.v \cup {<<k.s, h.v>>})

\* mutant: the integer branch tried before the boolean one
pyobj_to_json_int_first(val) ==
  IF val.t = "str" THEN ConvOk(JString(val.s))
  ELSE IF val.t = "float" THEN ConvOk(json_f64(val.f))
  ELSE IF IsPyLong(val) THEN
    (IF extract_i64(val) = <<>> THEN ConvErr("OverflowError")
     ELSE ConvOk(JInt(extract_i64(val)[1])))
  ELSE IF val.t \in {"list", "tuple"} THEN
    (LET r == pyobj_seq_to_json(val.items) IN
     IF r.ok THEN ConvOk(JArray(r.v)) ELSE r)
  ELSE IF val.t = "dict" THEN
    (LET r == pyobj_items_to_json(val.items) IN
     IF r.ok THEN ConvOk(JObject(r.v)) ELSE r)
  ELSE ConvErr("TypeError")

\* pyobj_to_json (lib.rs 445-490)
pyobj_to_json(val) ==
  IF val.t = "str" THEN ConvOk(JString(val.s))
  ELSE IF val.t = "bool" THEN ConvOk(JBool(val.b))
  ELSE IF val.t = "float" THEN ConvOk(json_f64(val.f))
  ELSE IF IsPyLong(val) THEN
    (IF extract_i64(val) = <<>> THEN ConvErr("OverflowError")
     ELSE ConvOk(JInt(extract_i64(val)[1])))
  ELSE IF val.t \in {"list", "tuple"} THEN
    (LET r == pyobj_seq_to_json(val.items) IN
     IF r.ok THEN ConvOk(JArray(r.v)) ELSE r)
  ELSE IF val.t = "dict" THEN
    (LET r == pyobj_items_to_json(val.items) IN
     IF r.ok THEN ConvOk(JObject(r.v)) ELSE r)
  ELSE ConvErr("TypeError")

\* ------------------------------------------------------------ content types
\* ContentType::parse of a header value: the strings that parse as a MIME type
ParsableContentTypes ==
  {"application/json", "application/hal+json", "text/plain",
   "application/octet-stream", "image/png"}

\* ContentType::default()
DefaultContentType == "*/*"

\* ContentType::is_json: application/json, or an application type with the
\* suffix +json
is_json(ct) == ct \in {"application/json", "application/hal+json"}

\* Option<ContentType>::unwrap_or_default
unwrap_or_default(opt) == IF opt = <<>> THEN DefaultContentType ELSE opt[1]

\* --------------------------------------------------------------- the bodies
Missing == [k |-> "Missing"]
Empty == [k |-> "Empty"]
Present(bytes, ct) == [k |-> "Present", bytes |-> bytes, ct |-> ct]

\* serde_json's Value::to_string, the bytes of a string, the bytes of a file
JsonText(v) == [src |-> "json", v |-> v]
StrBytes(s) == [src |-> "str", s |-> s]
FileBytes(path) == [src |-> "file", path |-> path]

\* OptionalBody::from(String): the JSON text of a value is never empty
OptionalBody_from(bytes) ==
  IF bytes = StrBytes("") THEN Empty ELSE Present(bytes, <<>>)

\* detect_content_type_from_string, on the body's bytes
detect_content_type(part) ==
  IF part.body.k # "Present" THEN <<>>
  ELSE IF part.body.bytes.src = "json" THEN <<"application/json">>
  ELSE <<"text/plain">>

\* lookup_header_value("content-type"): the values of every header whose name
\* matches case-insensitively, joined by ", " (the map's iteration order
\* decides which one is found when two names differ only in case)
lookup_content_type(headers) ==
  IF headers = <<>> THEN {}
  ELSE {IF p[2] = <<>> THEN "" ELSE p[2][1] :
          p \in {q \in headers[1] : Lower(q[1]) = "content-type"}}

\* HttpPart::content_type: the body's own content type, else the header,
\* else detection from the body; the set of values the call can return
content_type(part) ==
  IF part.body.k = "Present" /\ part.body.ct # <<>> THEN {part.body.ct}
  ELSE IF lookup_content_type(part.headers) = {} THEN {detect_content_type(part)}
  ELSE {IF h \in ParsableContentTypes THEN <<h>> ELSE detect_content_type(part) :
          h \in lookup_content_type(part.headers)}

\* HttpPart::has_header
has_header(part, name) ==
  part.headers # <<>> /\ \E p \in part.headers[1] : Lower(p[1]) = Lower(name)

\* HttpPart::add_header
add_header(part, key, val) ==
  [part EXCEPT !.headers =
     <<MapInsert(IF part.headers = <<>> THEN {} ELSE part.headers[1], key, val)>>]

\* ------------------------------------------------------------ matching rules
NoRules == [categories |-> {}, rules |-> {}]

\* MatchingRules::add_category
add_category(mr, name) == [mr EXCEPT !.categories = @ \cup {name}]

\* Category::add_rule
add_rule(mr, category, path, rule) ==
  [mr EXCEPT !.rules = @ \cup {<<category, path, rule>>}]

\* process_object / process_array on a value without matcher markers: the
\* value is returned as it is and nothing is added to the sinks
process_value(json) == json

\* ------------------------------------------------------------- the defaults
DefaultRequest ==
  [method |-> "GET", path |-> "/", query |-> <<>>, headers |-> <<>>,
   body |-> Missing, matching_rules |-> NoRules, generators |-> {}]

DefaultResponse ==
  [status |-> 200, headers |-> <<>>,
   body |-> Missing, matching_rules |-> NoRules, generators |-> {}]

DefaultInteraction ==
  [description |-> "", provider_states |-> <<>>,
   request |-> DefaultRequest, response |-> DefaultResponse]

\* ------------------------------------------------------ callback building blocks
Done(i) == [i |-> i, err |-> ""]
Raise(i, e) == [i |-> i, err |-> e]

RECURSIVE string_map(_)
\* mutant: a value that is not a str leaves no entry
string_map_drop(items) ==
  IF items = <<>> THEN ConvOk({})
  ELSE LET k == Head(items)[1]
           v == Head(items)[2] IN
       IF k.t # "str" THEN ConvErr("TypeError")
       ELSE LET r == string_map(Tail(items)) IN
            IF ~r.ok THEN r
            ELSE ConvOk(IF k.s \in MapKeys(r.v) \/ v.t # "str" THEN r.v
                        ELSE r.v \cup {<<k.s, <<v.s>>>>})

\* the loop over query.items / headers.items: a key that is not a str raises,
\* a str value becomes a one-element vec, any other value an empty vec
string_map(items) ==
  IF items = <<>> THEN ConvOk({})
  ELSE LET k == Head(items)[1]
           v == Head(items)[2] IN
       IF k.t # "str" THEN ConvErr("TypeError")
       ELSE LET r == string_map(Tail(items)) IN
            IF ~r.ok THEN r
            ELSE ConvOk(IF k.s \in MapKeys(r.v) THEN r.v
                        ELSE r.v \cup {<<k.s, IF v.t = "str" THEN <<v.s>> ELSE <<>>>>})

\* the "if let Ok(d) = x.cast_as::<PyDict>() .. else if NoneType .. else Err"
\* block: what to store (store = FALSE keeps the old map), or the exception
dict_arg(arg) ==
  IF arg.t = "dict" THEN
    (LET r == string_map(arg.items) IN
     IF ~r.ok THEN [err |-> r.e, store |-> FALSE, m |-> {}]
     ELSE [err |-> "", store |-> r.v # {}, m |-> r.v])
  ELSE IF arg.t = "NoneType" THEN [err |-> "", store |-> FALSE, m |-> {}]
  ELSE [err |-> "TypeError", store |-> FALSE, m |-> {}]

\* process_body_as_dict / process_body_as_array: the category is added to the
\* rule sink first, then the value is converted and walked
process_body(body, ct, matching_rules, generators) ==
  LET mr == add_category(matching_rules, "body")
      conv == pyobj_to_json(body) IN
  IF ~conv.ok THEN [err |-> conv.e, matching_rules |-> mr, generators |-> generators]
  ELSE [err |-> "", matching_rules |-> mr, generators |-> generators,
        body |-> OptionalBody_from(JsonText(process_value(conv.v))),
        ct |-> <<IF is_json(ct) THEN ct ELSE "application/json">>]

process_body_as_dict(body, ct, matching_rules, generators) ==
  process_body(body, ct, matching_rules, generators)

process_body_as_array(body, ct, matching_rules, generators) ==
  process_body(body, ct, matching_rules, generators)

\* mutant: a str body declares itself text/plain in the headers
body_block_str_header(part, hint, body) ==
  IF body.t \in {"dict", "list"} THEN
    {LET r == process_body(body, unwrap_or_default(c),
                           part.matching_rules, part.generators)
         p1 == [part EXCEPT !.matching_rules = r.matching_rules,
                            !.generators = r.generators] IN
     IF r.err # "" THEN [part |-> p1, err |-> r.err]
     ELSE [part |-> add_header([p1 EXCEPT !.body = r.body], "Content-Type", <<r.ct[1]>>),
           err |-> ""]
     : c \in content_type(hint)}
  ELSE IF body.t = "str" THEN
    {[part |-> add_header([part EXCEPT !.body = Present(StrBytes(body.s), c)],
                          "Content-Type", <<"text/plain">>),
      err |-> ""]
     : c \in content_type(part)}
  ELSE IF body.t # "NoneType" THEN {[part |-> part, err |-> "TypeError"]}
  ELSE {[part |-> part, err |-> ""]}

\* the body block shared by with_request (part = request) and
\* will_respond_with (part = response): `hint` is the message whose content
\* type is handed to the body processor. The set of [part, err] outcomes.
body_block(part, hint, body) ==
  IF body.t \in {"dict", "list"} THEN
    {LET r == IF body.t = "dict"
              THEN process_body_as_dict(body, unwrap_or_default(c),
                                        part.matching_rules, part.generators)
              ELSE process_body_as_array(body, unwrap_or_default(c),
                                         part.matching_rules, part.generators)
         p1 == [part EXCEPT !.matching_rules = r.matching_rules,
                            !.generators = r.generators] IN
     IF r.err # "" THEN [part |-> p1, err |-> r.err]
     ELSE [part |-> IF r.ct # <<>>
                    THEN add_header([p1 EXCEPT !.body = r.body], "Content-Type", <<r.ct[1]>>)
                    ELSE [p1 EXCEPT !.body = r.body],
           err |-> ""]
     : c \in content_type(hint)}
  ELSE IF body.t = "str" THEN
    {[part |-> [part EXCEPT !.body = Present(StrBytes(body.s), c)], err |-> ""]
     : c \in content_type(part)}
  ELSE IF body.t # "NoneType" THEN {[part |-> part, err |-> "TypeError"]}
  ELSE {[part |-> part, err |-> ""]}

\* ------------------------------------------------------- the builder callbacks
\* the closure of with_request (lib.rs 83-154): the outcomes [i, err]
with_request_cb(i, method, path, query, headers, body) ==
  LET i1 == [i EXCEPT !.request.method = method]
      i2 == IF path.t = "str" THEN [i1 EXCEPT !.request.path = path.s] ELSE i1
      q == dict_arg(query)
      i3 == IF q.store THEN [i2 EXCEPT !.request.query = <<q.m>>] ELSE i2
      h == dict_arg(headers)
      i4 == IF h.store THEN [i3 EXCEPT !.request.headers = <<h.m>>] ELSE i3 IN
  IF q.err # "" THEN {Raise(i2, q.err)}
  ELSE IF h.err # "" THEN {Raise(i3, h.err)}
  ELSE {[i |-> [i4 EXCEPT !.request = b.part], err |-> b.err]
        : b \in body_block(i4.request, i4.request, body)}

\* fs::read(file_path): the files that can be read
ReadableFiles == {"logo.png"}

\* mutant: the header added is the content_type argument
add_request_binary_file_cb_arg(i, ct, file_path, method, path, query, headers) ==
  LET i1 == [i EXCEPT !.request.method = method]
      i2 == IF path.t = "str" THEN [i1 EXCEPT !.request.path = path.s] ELSE i1
      q == dict_arg(query)
      i3 == IF q.store THEN [i2 EXCEPT !.request.query = <<q.m>>] ELSE i2
      h == dict_arg(headers)
      i4 == IF h.store THEN [i3 EXCEPT !.request.headers = <<h.m>>] ELSE i3
      r5 == [i4.request EXCEPT
               !.body = Present(FileBytes(file_path), <<>>),
               !.matching_rules =
                  add_rule(add_category(@, "body"), "body", "$", <<"ContentType", ct>>)]
      r6 == IF has_header(r5, "Content-Type") THEN r5
            ELSE add_header(r5, "Content-Type", <<ct>>) IN
  IF q.err # "" THEN {Raise(i2, q.err)}
  ELSE IF h.err # "" THEN {Raise(i3, h.err)}
  ELSE IF file_path \notin ReadableFiles THEN {Raise(i4, "TypeError")}
  ELSE {Done([i4 EXCEPT !.request = r6])}

\* the closure of add_request_binary_file (lib.rs 158-229)
add_request_binary_file_cb(i, ct, file_path, method, path, query, headers) ==
  LET i1 == [i EXCEPT !.request.method = method]
      i2 == IF path.t = "str" THEN [i1 EXCEPT !.request.path = path.s] ELSE i1
      q == dict_arg(query)
      i3 == IF q.store THEN [i2 EXCEPT !.request.query = <<q.m>>] ELSE i2
      h == dict_arg(headers)
      i4 == IF h.store THEN [i3 EXCEPT !.request.headers = <<h.m>>] ELSE i3
      r5 == [i4.request EXCEPT
               !.body = Present(FileBytes(file_path), <<>>),
               !.matching_rules =
                  add_rule(add_category(@, "body"), "body", "$", <<"ContentType", ct>>)]
      r6 == IF has_header(r5, "Content-Type") THEN r5
            ELSE add_header(r5, "Content-Type", <<"application/octet-stream">>) IN
  IF q.err # "" THEN {Raise(i2, q.err)}
  ELSE IF h.err # "" THEN {Raise(i3, h.err)}
  ELSE IF file_path \notin ReadableFiles THEN {Raise(i4, "TypeError")}
  ELSE {Done([i4 EXCEPT !.request = r6])}

\* the closure of will_respond_with (lib.rs 233-283)
will_respond_with_cb(i, status, headers, body) ==
  LET st == extract_u16(status)
      i1 == IF st # <<>> THEN [i EXCEPT !.response.status = st[1]] ELSE i
      h == dict_arg(headers)
      i2 == IF h.store THEN [i1 EXCEPT !.response.headers = <<h.m>>] ELSE i1 IN
  IF st = <<>> THEN {Raise(i, IF status.t = "int" THEN "OverflowError" ELSE "TypeError")}
  ELSE IF h.err # "" THEN {Raise(i1, h.err)}
  ELSE {[i |-> [i2 EXCEPT !.response = b.part], err |-> b.err]
        : b \in body_block(i2.response, i2.request, body)}

\* the closure of upon_receiving (lib.rs 76-79)
upon_receiving_cb(i, description) == {Done([i EXCEPT !.description = description])}

RECURSIVE given_params(_)
\* the loop of given over params.items (lib.rs 58-62): key cast, then value
given_params(items) ==
  IF items = <<>> THEN ConvOk({})
  ELSE LET k == Head(items)[1]
           v == pyobj_to_json(Head(items)[2]) IN
       IF k.t # "str" THEN ConvErr("TypeError")
       ELSE IF ~v.ok THEN v
       ELSE LET r == given_params(Tail(items)) IN
            IF ~r.ok THEN r
            ELSE ConvOk(IF k.s \in MapKeys(r.v) THEN r.v ELSE r.v \cup {<<k.s, v.v>>})

\* the closure of given (lib.rs 69-72)
given_cb(i, provider_state) ==
  {Done([i EXCEPT !.provider_states = Append(@, provider_state)])}

\* ------------------------------------------------------------ the accessor
\* the interaction the callback is handed: the open one, or a default one
Target ==
  IF interaction # <<>> THEN pact.interactions[interaction[1] + 1]
  ELSE DefaultInteraction

\* mutant: a new interaction is put in front of the existing ones
with_current_interaction_front(r) ==
  IF interaction # <<>>
  THEN [pact |-> [pact EXCEPT !.interactions[interaction[1] + 1] = r.i],
        interaction |-> interaction]
  ELSE [pact |-> [pact EXCEPT !.interactions = <<r.i>> \o @],
        interaction |-> <<0>>]

\* mutant: a new interaction is pushed whatever the cursor says
with_current_interaction_push(r) ==
  [pact |-> [pact EXCEPT !.interactions = Append(@, r.i)],
   interaction |-> <<Len(pact.interactions) + 1 - 1>>]

\* with_current_interaction (lib.rs 305-318), r the callback's outcome:
\* the pact and the cursor it leaves
with_current_interaction(r) ==
  IF interaction # <<>>
  THEN [pact |-> [pact EXCEPT !.interactions[interaction[1] + 1] = r.i],
        interaction |-> interaction]
  ELSE [pact |-> [pact EXCEPT !.interactions = Append(@, r.i)],
        interaction |-> <<Len(pact.interactions) + 1 - 1>>]

\* what a builder verb returns to Python
Returned(op, err) ==
  [op |-> op, id |-> 0, err |-> err, msg |-> "", val |-> PyNone]

\* ------------------------------------------------------------ builder verbs
\* mutant: the running servers share the builder's pact instead of a copy
Verb_shared_pact(op, outcomes) ==
  \E r \in outcomes :
    LET w == with_current_interaction(r) IN
    /\ pact' = w.pact
    /\ interaction' = w.interaction
    /\ ret' = Returned(op, r.err)
    /\ servers' = {[e EXCEPT !.pact = w.pact] : e \in servers}
    /\ UNCHANGED <<responded, nextId, started>>

\* a verb that goes through with_current_interaction and keeps the cursor
Verb(op, outcomes) ==
  \E r \in outcomes :
    LET w == with_current_interaction(r) IN
    /\ pact' = w.pact
    /\ interaction' = w.interaction
    /\ ret' = Returned(op, r.err)
    /\ UNCHANGED <<responded, servers, nextId, started>>

\* a verb that raises before it reaches with_current_interaction
Rejected(op, err) ==
  /\ ret' = Returned(op, err)
  /\ UNCHANGED <<pact, interaction, responded, servers, nextId, started>>

given(provider_state, params) ==
  IF params.t # "dict" THEN Rejected("given", "TypeError")
  ELSE LET ps == given_params(params.items) IN
       IF ~ps.ok THEN Rejected("given", ps.e)
       ELSE Verb("given", given_cb(Target, [name |-> provider_state, params |-> ps.v]))

upon_receiving(description) ==
  Verb("upon_receiving", upon_receiving_cb(Target, description))

with_request(method, path, query, headers, body) ==
  Verb("with_request", with_request_cb(Target, method, path, query, headers, body))

add_request_binary_file(ct, file_path, method, path, query, headers) ==
  Verb("add_request_binary_file",
       add_request_binary_file_cb(Target, ct, file_path, method, path, query, headers))

\* mutant: the cursor is reset before the accessor runs, not after
will_respond_with_reset_first(status, headers, body) ==
  \E r \in will_respond_with_cb(DefaultInteraction, status, headers, body) :
    /\ pact' = [pact EXCEPT !.interactions = Append(@, r.i)]
    /\ interaction' = IF r.err # "" THEN <<Len(pact.interactions)>> ELSE <<>>
    /\ responded' = responded \cup {Len(pact.interactions)}
    /\ ret' = Returned("will_respond_with", r.err)
    /\ UNCHANGED <<servers, nextId, started>>

\* will_respond_with (lib.rs 232-289): the `?` after with_current_interaction
\* returns the error before the cursor is reset
will_respond_with(status, headers, body) ==
  \E r \in will_respond_with_cb(Target, status, headers, body) :
    LET w == with_current_interaction(r) IN
    /\ pact' = w.pact
    /\ interaction' = IF r.err # "" THEN w.interaction ELSE <<>>
    /\ responded' = responded \cup {w.interaction[1]}
    /\ ret' = Returned("will_respond_with", r.err)
    /\ UNCHANGED <<servers, nextId, started>>

\* ----------------------------------------------------------------- registry
Ids(srv) == {e.id : e \in srv}
Entry(srv, id) == CHOOSE e \in srv : e.id = id

\* mutant: the id is the lowest one no running server holds
Uuid_lowest_free == CHOOSE n \in 1..nextId : n \notin Ids(servers) /\ \A m \in 1..(n - 1) : m \in Ids(servers)

\* Uuid::new_v4(): a version-4 UUID, taken to differ from every one drawn before
Uuid_new_v4 == nextId

\* pact.clone(): a deep copy, a value of its own
clone(p) == p

\* ServerManager::start_mock_server on a successful bind: the entry is
\* inserted under the id (HashMap::insert replaces an entry of the same id)
ServerManager_insert(srv, id, p) ==
  {e \in srv : e.id # id} \cup {[id |-> id, pact |-> p, mismatches |-> <<>>]}

Handle(id) == [t |-> "MockServerHandle", id |-> id]

\* mutant: the open interaction is flushed (the cursor reset) before the start
start_mock_server_flush(bound) ==
  LET mock_server_id == Uuid_new_v4 IN
  /\ nextId' = nextId + 1
  /\ interaction' = <<>>
  /\ IF bound
     THEN /\ servers' = ServerManager_insert(servers, mock_server_id, clone(pact))
          /\ started' = Append(started, mock_server_id)
          /\ ret' = [op |-> "start_mock_server", id |-> mock_server_id,
                     err |-> "", msg |-> "", val |-> Handle(mock_server_id)]
     ELSE /\ UNCHANGED <<servers, started>>
          /\ ret' = [op |-> "start_mock_server", id |-> mock_server_id,
                     err |-> "TypeError", msg |-> "bind", val |-> PyNone]
  /\ UNCHANGED <<pact, responded>>

\* mutant: the entry is registered before the engine has bound, and stays
\* registered when the bind fails
start_mock_server_register_first(bound) ==
  LET mock_server_id == Uuid_new_v4 IN
  /\ nextId' = nextId + 1
  /\ servers' = ServerManager_insert(servers, mock_server_id, clone(pact))
  /\ IF bound
     THEN /\ started' = Append(started, mock_server_id)
          /\ ret' = [op |-> "start_mock_server", id |-> mock_server_id,
                     err |-> "", msg |-> "", val |-> Handle(mock_server_id)]
     ELSE /\ UNCHANGED started
          /\ ret' = [op |-> "start_mock_server", id |-> mock_server_id,
                     err |-> "TypeError", msg |-> "bind", val |-> PyNone]
  /\ UNCHANGED <<pact, interaction, responded>>

\* start_mock_server (lib.rs 291-301); bound says whether the engine could
\* bind and serve
start_mock_server(bound) ==
  LET mock_server_id == Uuid_new_v4 IN
  /\ nextId' = nextId + 1
  /\ IF bound
     THEN /\ servers' = ServerManager_insert(servers, mock_server_id, clone(pact))
          /\ started' = Append(started, mock_server_id)
          /\ ret' = [op |-> "start_mock_server", id |-> mock_server_id,
                     err |-> "", msg |-> "", val |-> Handle(mock_server_id)]
     ELSE /\ UNCHANGED <<servers, started>>
          /\ ret' = [op |-> "start_mock_server", id |-> mock_server_id,
                     err |-> "TypeError", msg |-> "bind", val |-> PyNone]
  /\ UNCHANGED <<pact, interaction, responded>>

\* json_to_pyobj (lib.rs 492-507)
RECURSIVE json_to_pyobj(_)
RECURSIVE json_seq_to_pyobj(_)
RECURSIVE json_map_to_pyobj(_)

json_seq_to_pyobj(items) ==
  IF items = <<>> THEN <<>>
  ELSE <<json_to_pyobj(Head(items))>> \o json_seq_to_pyobj(Tail(items))

json_map_to_pyobj(m) ==
  IF m = {} THEN <<>>
  ELSE LET p == CHOOSE q \in m : TRUE IN
       <<<<PyStr(p[1]), json_to_pyobj(p[2])>>>> \o json_map_to_pyobj(m \ {p})

json_to_pyobj(val) ==
  IF val.j = "Null" THEN PyNone
  ELSE IF val.j = "Bool" THEN PyBool(val.b)
  ELSE IF val.j = "I64" THEN PyInt(val.n)
  ELSE IF val.j = "F64" THEN PyFloat(val.f)
  ELSE IF val.j = "String" THEN PyStr(val.s)
  ELSE IF val.j = "Array" THEN PyList(json_seq_to_pyobj(val.items))
  ELSE PyDict(json_map_to_pyobj(val.m))

\* Mismatch::to_json of a recorded mismatch
mismatch_to_json(m) == JObject({<<"type", JString(m)>>})

\* mutant: an unknown id yields None, as a server without mismatches does
get_test_result_silent(id) ==
  /\ ret' =
       [op |-> "get_test_result", id |-> id, err |-> "", msg |-> "",
        val |-> IF id \in Ids(servers) /\ Entry(servers, id).mismatches # <<>>
                THEN PyList([n \in 1..Len(Entry(servers, id).mismatches) |->
                      json_to_pyobj(mismatch_to_json(Entry(servers, id).mismatches[n]))])
                ELSE PyNone]
  /\ UNCHANGED <<pact, interaction, responded, servers, nextId, started>>

\* mutant: the is_empty test is left out, a server without mismatches yields
\* an empty list
get_test_result_empty_list(id) ==
  /\ ret' =
       IF id \in Ids(servers)
       THEN LET mismatches == Entry(servers, id).mismatches IN
            [op |-> "get_test_result", id |-> id, err |-> "", msg |-> "",
             val |-> PyList([n \in 1..Len(mismatches) |->
                               json_to_pyobj(mismatch_to_json(mismatches[n]))])]
       ELSE [op |-> "get_test_result", id |-> id, err |-> "TypeError",
             msg |-> "there is no mock server with id", val |-> PyNone]
  /\ UNCHANGED <<pact, interaction, responded, servers, nextId, started>>

\* get_test_result (lib.rs 384-393)
get_test_result(id) ==
  /\ ret' =
       IF id \in Ids(servers)
       THEN LET mismatches == Entry(servers, id).mismatches IN
            [op |-> "get_test_result", id |-> id, err |-> "", msg |-> "",
             val |-> IF mismatches = <<>> THEN PyNone
                     ELSE PyList([n \in 1..Len(mismatches) |->
                                    json_to_pyobj(mismatch_to_json(mismatches[n]))])]
       ELSE [op |-> "get_test_result", id |-> id, err |-> "TypeError",
             msg |-> "there is no mock server with id", val |-> PyNone]
  /\ UNCHANGED <<pact, interaction, responded, servers, nextId, started>>

\* write_pact_file (lib.rs 395-416); written says whether the instance's
\* write_pact succeeded
write_pact_file(id, written) ==
  /\ ret' =
       IF id \in Ids(servers)
       THEN IF written
            THEN [op |-> "write_pact_file", id |-> id, err |-> "", msg |-> "",
                  val |-> PyNone]
            ELSE [op |-> "write_pact_file", id |-> id, err |-> "TypeError",
                  msg |-> "Failed to write pact to file", val |-> PyNone]
       ELSE [op |-> "write_pact_file", id |-> id, err |-> "TypeError",
             msg |-> "there is no mock server with id", val |-> PyNone]
  /\ UNCHANGED <<pact, interaction, responded, servers, nextId, started>>

\* ServerManager::shutdown_mock_server_by_id: the entry is removed; whether
\* there was one
shutdown_mock_server_by_id(srv, id) ==
  [servers |-> {e \in srv : e.id # id}, found |-> id \in Ids(srv)]

\* mutant: the manager's answer is dropped and True returned
shutdown_always_true(id) ==
  LET r == shutdown_mock_server_by_id(servers, id) IN
  /\ servers' = r.servers
  /\ ret' = [op |-> "shutdown", id |-> id, err |-> "", msg |-> "",
             val |-> PyBool(TRUE)]
  /\ UNCHANGED <<pact, interaction, responded, nextId, started>>

\* shutdown (lib.rs 418-420)
shutdown(id) ==
  LET r == shutdown_mock_server_by_id(servers, id) IN
  /\ servers' = r.servers
  /\ ret' = [op |-> "shutdown", id |-> id, err |-> "", msg |-> "",
             val |-> PyBool(r.found)]
  /\ UNCHANGED <<pact, interaction, responded, nextId, started>>

\* the mock server engine records a mismatch for a request it received
RecordMismatch(id, m) ==
  /\ id \in Ids(servers)
  /\ servers' = {IF e.id = id THEN [e EXCEPT !.mismatches = Append(@, m)] ELSE e
                   : e \in servers}
  /\ ret' = [op |-> "request", id |-> id, err |-> "", msg |-> "", val |-> PyNone]
  /\ UNCHANGED <<pact, interaction, responded, nextId, started>>

\* ---------------------------------------------------------------- the start
EmptyDict == PyDict(<<>>)
OkBody == PyDict(<<<<PyStr("ok"), PyBool(TRUE)>>>>)

\* the arguments of Scenario A
ScenarioA ==
  [state |-> "is-authenticated", description |-> "a request", method |-> "GET",
   path |-> "/items", status |-> 200, body |-> OkBody]

\* the threads that call into the registry
Callers == {"t1", "t2"}

\* a thread that is in no call
IdleThread == [pc |-> "idle", op |-> "", id |-> 0]

\* PactNative::__new__ (lib.rs 46-55) with consumer "C" and provider "P", and
\* the empty MANAGER (lib.rs 29-31)
Fresh ==
  /\ pact = [consumer |-> "C", provider |-> "P", interactions |-> <<>>]
  /\ interaction = <<>>
  /\ responded = {}
  /\ servers = {}
  /\ nextId = 1
  /\ started = <<>>
  /\ calls = 0
  /\ ret = [op |-> "new", id |-> 0, err |-> "", msg |-> "", val |-> PyNone]
  /\ lock = <<>>
  /\ threads = [c \in Callers |-> IdleThread]

Init == Fresh /\ scenario = ScenarioA

\* every step is one call, made from start to end by one thread, and a run
\* makes at most MaxCalls of them
Call ==
  /\ calls < MaxCalls
  /\ calls' = calls + 1
  /\ UNCHANGED <<scenario, lock, threads>>

\* ------------------------------------- Spec: the builder, input by input
GivenParams == {EmptyDict, PyDict(<<<<PyStr("id"), PyNone>>>>)}
Paths == {PyStr("/items"), EmptyDict}
Queries == {EmptyDict, PyStr("q=1")}
RequestHeaders == {EmptyDict, PyInt(1)}
RequestBodies == {PyNone, PyStr("hello")}
Statuses == {PyInt(200), PyInt(404), PyStr("200")}
ResponseHeaders == {EmptyDict, PyInt(1)}
ResponseBodies == {OkBody, PyObject}

Given ==
  \E params \in GivenParams : Call /\ given("is-authenticated", params)

UponReceiving == Call /\ upon_receiving("a request")

WithRequest ==
  \E path \in Paths, query \in Queries, headers \in RequestHeaders,
     body \in RequestBodies :
    Call /\ with_request("GET", path, query, headers, body)

AddRequestBinaryFile ==
  \E file \in {"logo.png", "missing.png"} :
    Call /\ add_request_binary_file("image/png", file, "POST", PyStr("/logo"),
                                    PyNone, PyNone)

WillRespondWith ==
  \E status \in Statuses, headers \in ResponseHeaders, body \in ResponseBodies :
    Call /\ will_respond_with(status, headers, body)

Next == Given \/ UponReceiving \/ WithRequest \/ AddRequestBinaryFile \/ WillRespondWith

Spec == Init /\ [][Next]_vars

\* --------------------- SpecRegistry: the builder verbs and the mock servers
\* the ids a caller can name: 0 stands for an id no start ever produced, the
\* others are the ids produced so far
KnownIds == 0..(nextId - 1)

RGiven == \E params \in GivenParams : Call /\ given("is-authenticated", params)

RUponReceiving == Call /\ upon_receiving("a request")

RWithRequest ==
  Call /\ with_request("GET", PyStr("/items"), EmptyDict, EmptyDict, PyNone)

RAddRequestBinaryFile ==
  Call /\ add_request_binary_file("image/png", "logo.png", "POST", PyStr("/logo"),
                                  PyNone, PyNone)

RWillRespondWith ==
  \E status \in {PyInt(200), PyStr("200")} :
    Call /\ will_respond_with(status, EmptyDict, OkBody)

StartMockServer == \E bound \in BOOLEAN : Call /\ start_mock_server(bound)

GetTestResult == \E id \in KnownIds : Call /\ get_test_result(id)

WritePactFile ==
  \E id \in KnownIds, written \in BOOLEAN : Call /\ write_pact_file(id, written)

Shutdown == \E id \in KnownIds : Call /\ shutdown(id)

ServeRequest == \E id \in KnownIds : Call /\ RecordMismatch(id, "RequestNotFound")

NextRegistry ==
  \/ RGiven \/ RUponReceiving \/ RWithRequest \/ RAddRequestBinaryFile
  \/ RWillRespondWith \/ StartMockServer
  \/ GetTestResult \/ WritePactFile \/ Shutdown \/ ServeRequest

SpecRegistry == Init /\ [][NextRegistry]_vars

\* ------------- SpecScenario: the four verbs of Scenario A, over its arguments
Scenarios ==
  [state : {"is-authenticated", "has-items"},
   description : {"a request", "another request"},
   method : {"GET", "POST"},
   path : {"/items", "/users"},
   status : {200, 404},
   body : {OkBody, PyList(<<PyInt(1)>>)}]

InitScenario == Fresh /\ scenario \in Scenarios

ScenarioGiven == calls = 0 /\ Call /\ given(scenario.state, EmptyDict)

ScenarioUponReceiving == calls = 1 /\ Call /\ upon_receiving(scenario.description)

ScenarioWithRequest ==
  /\ calls = 2
  /\ Call
  /\ with_request(scenario.method, PyStr(scenario.path), EmptyDict, EmptyDict, PyNone)

ScenarioWillRespondWith ==
  calls = 3 /\ Call /\ will_respond_with(PyInt(scenario.status), EmptyDict, scenario.body)

NextScenario ==
  \/ ScenarioGiven \/ ScenarioUponReceiving \/ ScenarioWithRequest
  \/ ScenarioWillRespondWith

SpecScenario == InitScenario /\ [][NextScenario]_vars

\* ---------- SpecVerbs: one verb, over its arguments, Idle or on a request
\* the arguments played: a dict of one str value, a dict of one value that is
\* not a str, a value that is neither a dict nor None; the content types a
\* caller declares
Arg ==
  [q_str |-> PyDict(<<<<PyStr("q"), PyStr("1")>>>>),
   q_int |-> PyDict(<<<<PyStr("q"), PyInt(1)>>>>),
   q_bad |-> PyStr("q=1"),
   h_text |-> PyDict(<<<<PyStr("Content-Type"), PyStr("text/plain")>>>>),
   h_hal |-> PyDict(<<<<PyStr("Content-Type"), PyStr("application/hal+json")>>>>),
   h_lower |-> PyDict(<<<<PyStr("content-type"), PyStr("text/plain")>>>>),
   h_int |-> PyDict(<<<<PyStr("X"), PyInt(1)>>>>),
   h_bad |-> PyInt(1),
   list |-> PyList(<<PyInt(1)>>)]

\* prior says whether a with_request(prior_headers, prior_body) opened the
\* interaction before the verb is called
VerbScenarios ==
  LET priors ==
        [prior : {FALSE}, prior_headers : {PyNone}, prior_body : {PyNone}]
        \cup [prior : {TRUE},
              prior_headers : {PyNone, Arg.h_text, Arg.h_hal, Arg.h_lower},
              prior_body : {PyNone, PyStr("hello")}]
      verbs ==
        [verb : {"with_request"},
         query : {PyNone, Arg.q_str, Arg.q_int, Arg.q_bad},
         headers : {PyNone, Arg.h_text, Arg.h_int, Arg.h_bad},
         body : {PyNone, PyStr("hello"), OkBody, Arg.list, PyObject},
         file : {"logo.png"}]
        \cup [verb : {"will_respond_with"},
              query : {PyNone},
              headers : {PyNone, Arg.h_text, Arg.h_int, Arg.h_bad},
              body : {PyNone, PyStr("hello"), OkBody, Arg.list, PyObject},
              file : {"logo.png"}]
        \cup [verb : {"add_request_binary_file"},
              query : {PyNone, Arg.q_str, Arg.q_int, Arg.q_bad},
              headers : {PyNone, Arg.h_text, Arg.h_int, Arg.h_bad},
              body : {PyNone},
              file : {"logo.png", "missing.png"}] IN
  {[prior |-> p.prior, prior_headers |-> p.prior_headers, prior_body |-> p.prior_body,
    verb |-> v.verb, query |-> v.query, headers |-> v.headers, body |-> v.body,
    file |-> v.file] : p \in priors, v \in verbs}

InitVerbs == Fresh /\ scenario \in VerbScenarios

\* the call that opens the interaction, in the scenarios that have one
Prepare ==
  /\ scenario.prior
  /\ calls = 0
  /\ Call
  /\ with_request("GET", PyStr("/items"), PyNone, scenario.prior_headers,
                  scenario.prior_body)

\* the verb of the scenario, with its arguments
PlayVerb ==
  /\ calls = IF scenario.prior THEN 1 ELSE 0
  /\ Call
  /\ CASE scenario.verb = "with_request" ->
            with_request("POST", PyStr("/orders"), scenario.query, scenario.headers,
                         scenario.body)
       [] scenario.verb = "add_request_binary_file" ->
            add_request_binary_file("image/png", scenario.file, "POST",
                                    PyStr("/orders"), scenario.query, scenario.headers)
       [] scenario.verb = "will_respond_with" ->
            will_respond_with(PyInt(200), scenario.headers, scenario.body)

NextVerbs == Prepare \/ PlayVerb

SpecVerbs == InitVerbs /\ [][NextVerbs]_vars

\* ------- SpecResults: mock servers, the requests they serve, their results
\* the kinds of mismatch the engine records for a request
MismatchKinds == {"RequestNotFound", "RequestMismatch"}

ResultsServe ==
  \E id \in KnownIds, m \in MismatchKinds : Call /\ RecordMismatch(id, m)

NextResults == StartMockServer \/ ResultsServe \/ GetTestResult \/ Shutdown

SpecResults == Init /\ [][NextResults]_vars

\* ------------------ SpecCodec: a value converted to JSON, and back to Python
\* the nesting depth of the values converted
MaxDepth == 2

RECURSIVE CodecValues(_)
\* the values nested at most d deep: the scalars; the containers of scalars
\* (the empty ones, two elements in either order, two keys, a key that is not
\* a str); a list, a tuple and a dict around each value one less deep
CodecValues(d) ==
  LET scalars ==
        {PyNone, PyBool(TRUE), PyBool(FALSE), PyInt(0), PyInt(1), PyInt(-1),
         PyHugeInt, PyFloat("1.5"), PyFloat("inf"), PyStr("a"), PyStr(""), PyObject}
      flat ==
        {PyList(<<>>), PyTuple(<<>>), PyDict(<<>>)}
        \cup {PyList(<<x, y>>) : x, y \in {PyBool(TRUE), PyInt(1), PyStr("a")}}
        \cup {PyDict(<<<<PyStr("a"), PyInt(1)>>, <<PyStr("b"), PyBool(TRUE)>>>>),
              PyDict(<<<<PyInt(1), PyStr("a")>>>>)} IN
  IF d = 0 THEN scalars
  ELSE LET inner == CodecValues(d - 1) IN
       scalars \cup flat
       \cup {PyList(<<x>>) : x \in inner}
       \cup {PyTuple(<<x>>) : x \in inner}
       \cup {PyDict(<<<<PyStr("k"), x>>>>) : x \in inner}

\* pyobj_to_json(py, &val) called on the value
ToJson ==
  /\ calls = 0
  /\ Call
  /\ LET c == pyobj_to_json(scenario.value) IN
     ret' = IF c.ok
            THEN [op |-> "pyobj_to_json", id |-> 0, err |-> "", msg |-> "", val |-> c.v]
            ELSE [op |-> "pyobj_to_json", id |-> 0, err |-> c.e, msg |-> "",
                  val |-> PyNone]
  /\ UNCHANGED <<pact, interaction, responded, servers, nextId, started>>

\* json_to_pyobj(py, &val) called on the JSON value pyobj_to_json returned
ToPyobj ==
  /\ calls = 1
  /\ ret.op = "pyobj_to_json"
  /\ ret.err = ""
  /\ Call
  /\ ret' = [op |-> "json_to_pyobj", id |-> 0, err |-> "", msg |-> "",
             val |-> json_to_pyobj(ret.val)]
  /\ UNCHANGED <<pact, interaction, responded, servers, nextId, started>>

NextCodec == ToJson \/ ToPyobj

InitCodec == Fresh /\ scenario \in [value : CodecValues(MaxDepth)]

SpecCodec == InitCodec /\ [][NextCodec]_vars

\* ------ SpecConcurrent: threads calling into the registry, statement by statement
\* the number of registry operations the threads start in a run
MaxOps == 4

\* the ids a caller holds a handle of; 0 stands for an id never registered
HandleIds == {0} \cup {started[n] : n \in 1..Len(started)}

\* the part of a thread's call that is under the lock
InCriticalSection(c) == threads[c].pc \in {"bind", "insert", "manager", "write", "unlock"}

\* a thread enters a method and runs up to MANAGER.lock(); start_mock_server
\* has drawn its id by then (lib.rs 293)
Enter(c, op, id) ==
  /\ threads[c].pc = "idle"
  /\ calls < MaxOps
  /\ calls' = calls + 1
  /\ IF op = "start_mock_server"
     THEN id = Uuid_new_v4 /\ nextId' = nextId + 1
     ELSE id \in HandleIds /\ nextId' = nextId
  /\ threads' = [threads EXCEPT ![c] = [pc |-> "lock", op |-> op, id |-> id]]
  /\ UNCHANGED <<pact, interaction, responded, servers, ret, started, scenario, lock>>

\* mutant: the lock is taken without waiting for its holder
Mutex_lock_no_wait(c) == lock' = <<c>>

\* MANAGER.lock(): blocks while another thread holds the mutex
Mutex_lock(c) == lock = <<>> /\ lock' = <<c>>

\* MANAGER.lock().unwrap() in the four methods (lib.rs 295, 385, 412, 419)
Lock(c) ==
  /\ threads[c].pc = "lock"
  /\ Mutex_lock(c)
  /\ threads' = [threads EXCEPT ![c].pc =
                   IF threads[c].op = "start_mock_server" THEN "bind"
                   ELSE IF threads[c].op = "write_pact_file" THEN "write"
                   ELSE "manager"]
  /\ UNCHANGED <<pact, interaction, responded, servers, nextId, ret, started, calls,
                 scenario>>

\* ServerManager::start_mock_server, called on the guard (lib.rs 295): the
\* engine binds port 0 and reports the port or an error
Bind(c, bound) ==
  /\ threads[c].pc = "bind"
  /\ IF bound
     THEN /\ threads' = [threads EXCEPT ![c].pc = "insert"]
          /\ UNCHANGED ret
     ELSE /\ threads' = [threads EXCEPT ![c].pc = "unlock"]
          /\ ret' = [op |-> "start_mock_server", id |-> threads[c].id,
                     err |-> "TypeError", msg |-> "bind", val |-> PyNone]
  /\ UNCHANGED <<pact, interaction, responded, servers, nextId, started, calls,
                 scenario, lock>>

\* ServerManager::start_mock_server after the bind: the entry is registered
Insert(c) ==
  /\ threads[c].pc = "insert"
  /\ servers' = ServerManager_insert(servers, threads[c].id, clone(pact))
  /\ started' = Append(started, threads[c].id)
  /\ ret' = [op |-> "start_mock_server", id |-> threads[c].id,
             err |-> "", msg |-> "", val |-> Handle(threads[c].id)]
  /\ threads' = [threads EXCEPT ![c].pc = "unlock"]
  /\ UNCHANGED <<pact, interaction, responded, nextId, calls, scenario, lock>>

\* find_mock_server_by_id with the mismatches closure, and the match on its
\* result (lib.rs 385-392)
FindResult(c) ==
  /\ threads[c].pc = "manager"
  /\ threads[c].op = "get_test_result"
  /\ get_test_result(threads[c].id)
  /\ threads' = [threads EXCEPT ![c].pc = "unlock"]
  /\ UNCHANGED <<calls, scenario, lock>>

\* find_mock_server_by_id with the write_pact closure (lib.rs 412-415): the
\* file is written inside the closure
WriteFile(c, written) ==
  /\ threads[c].pc = "write"
  /\ write_pact_file(threads[c].id, written)
  /\ threads' = [threads EXCEPT ![c].pc = "unlock"]
  /\ UNCHANGED <<calls, scenario, lock>>

\* shutdown_mock_server_by_id (lib.rs 419)
Remove(c) ==
  /\ threads[c].pc = "manager"
  /\ threads[c].op = "shutdown"
  /\ shutdown(threads[c].id)
  /\ threads' = [threads EXCEPT ![c].pc = "unlock"]
  /\ UNCHANGED <<calls, scenario, lock>>

\* mutant: the guard is dropped only when the operation succeeded
Mutex_unlock_on_success(c) == lock' = IF ret.err = "" THEN <<>> ELSE lock

\* the drop of the MutexGuard, a temporary of the statement that locked
Mutex_unlock(c) == lock' = <<>>

\* the end of the statement that took the lock, and the return of the method
Unlock(c) ==
  /\ threads[c].pc = "unlock"
  /\ Mutex_unlock(c)
  /\ threads' = [threads EXCEPT ![c] = IdleThread]
  /\ UNCHANGED <<pact, interaction, responded, servers, nextId, ret, started, calls,
                 scenario>>

\* what thread c does next, once it is in a call
Step(c) ==
  \/ Lock(c)
  \/ \E bound \in BOOLEAN : Bind(c, bound)
  \/ Insert(c)
  \/ FindResult(c)
  \/ \E written \in BOOLEAN : WriteFile(c, written)
  \/ Remove(c)
  \/ Unlock(c)

NextConcurrent ==
  \E c \in Callers :
    \/ \E op \in {"start_mock_server", "get_test_result", "write_pact_file",
                 "shutdown"},
          id \in 0..nextId : Enter(c, op, id)
    \/ Step(c)

SpecConcurrent == Init /\ [][NextConcurrent]_vars

\* a thread in a call is scheduled again and again, and a bind or a file
\* write comes to an end
SpecConcurrentFair == SpecConcurrent /\ \A c \in Callers : WF_vars(Step(c))

\* --------------------------------------------------------------- the verifier
\* A string the verifier looks into (base_url, an entry of sources) is the
\* sequence of its characters.
Alpha == {"a", "b", "c", "h", "l", "n", "o", "p", "r", "s", "t", "u", "x"}
Digit == {"0", "1", "4", "8"}

\* \w of the regex crate: letters, digits, the underscore
WordChars == Alpha \cup Digit \cup {"_"}

RECURSIVE IndexOf(_, _, _)
\* the least index from `from` on of a character of cs in s, Len(s) + 1 if none
IndexOf(s, cs, from) ==
  IF from > Len(s) THEN Len(s) + 1
  ELSE IF s[from] \in cs THEN from
  ELSE IndexOf(s, cs, from + 1)

RECURSIVE SkipWhile(_, _, _)
\* the least index from `from` on of a character not of cs in s
SkipWhile(s, cs, from) ==
  IF from > Len(s) THEN Len(s) + 1
  ELSE IF s[from] \notin cs THEN from
  ELSE SkipWhile(s, cs, from + 1)

\* mutant: the pattern taken as ^\w*://, a scheme of no character at all
re_is_match_star(s) ==
  LET n == SkipWhile(s, WordChars, 1) IN
  /\ Len(s) >= n + 2
  /\ SubSeq(s, n, n + 2) = <<":", "/", "/">>

\* Regex::new(r"^\w+://").is_match (verifier.rs 48-49): one or more word
\* characters from the start, then "://"
re_is_match(s) ==
  LET n == SkipWhile(s, WordChars, 1) IN
  /\ n >= 2
  /\ Len(s) >= n + 2
  /\ SubSeq(s, n, n + 2) = <<":", "/", "/">>

\* the schemes the url crate calls special (the host is required), with
\* their default ports
SpecialSchemes ==
  {<<<<"h", "t", "t", "p">>, <<"8", "0">>>>, <<<<"h", "t", "t", "p", "s">>, <<"4", "4", "3">>>>}

\* Url::parse (verifier.rs 27): an absolute URL has a scheme, a letter
\* followed by scheme characters up to the first ":"; a special scheme needs
\* a host; a port is digits, and the scheme's default port is no port.
\* Covers URLs without userinfo, query and fragment.
Url_parse(s) ==
  LET colon == IndexOf(s, {":"}, 1)
      scheme == SubSeq(s, 1, colon - 1)
      special == scheme \in {sp[1] : sp \in SpecialSchemes}
      rest == SubSeq(s, colon + 1, Len(s))
      slashes == SkipWhile(rest, {"/"}, 1) - 1
      has_authority == special \/ slashes >= 2
      after == IF special THEN SubSeq(rest, slashes + 1, Len(rest))
               ELSE IF has_authority THEN SubSeq(rest, 3, Len(rest))
               ELSE rest
      aend == IF has_authority THEN IndexOf(after, {"/"}, 1) ELSE 1
      authority == SubSeq(after, 1, aend - 1)
      pcolon == IndexOf(authority, {":"}, 1)
      host == SubSeq(authority, 1, pcolon - 1)
      port == SubSeq(authority, pcolon + 1, Len(authority))
      path == SubSeq(after, aend, Len(after)) IN
  IF ~(/\ colon <= Len(s)
       /\ colon >= 2
       /\ s[1] \in Alpha
       /\ \A i \in 2..(colon - 1) : s[i] \in Alpha \cup Digit \cup {"+", "-", "."})
  THEN [ok |-> FALSE, e |-> "RelativeUrlWithoutBase"]
  ELSE IF special /\ host = <<>> THEN [ok |-> FALSE, e |-> "EmptyHost"]
  ELSE IF \E i \in 1..Len(port) : port[i] \notin Digit THEN [ok |-> FALSE, e |-> "InvalidPort"]
  ELSE [ok |-> TRUE,
        scheme |-> scheme,
        host_str |-> IF host = <<>> THEN <<>> ELSE <<host>>,
        port |-> IF port = <<>> \/ <<scheme, port>> \in SpecialSchemes THEN <<>>
                 ELSE <<port>>,
        path |-> IF special /\ path = <<>> THEN <<"/">> ELSE path]

PactSource_URL(s) == [kind |-> "URL", s |-> s, auth |-> <<>>]
PactSource_File(s) == [kind |-> "File", s |-> s]

\* PyDict::get_item
get_item(dict, key) ==
  LET hits == {n \in 1..Len(dict.items) : dict.items[n][1] = PyStr(key)} IN
  IF hits = {} THEN <<>> ELSE <<dict.items[CHOOSE n \in hits : TRUE][2]>>

RECURSIVE pact_urls_loop(_)
\* the loop over the entries of sources (verifier.rs 45-57): the sources
\* pushed and the entries warned about, each in order
pact_urls_loop(entries) ==
  IF entries = <<>> THEN [pacts |-> <<>>, warnings |-> <<>>]
  ELSE LET pact_url == Head(entries)
           r == pact_urls_loop(Tail(entries)) IN
       IF pact_url.t = "str"
       THEN [r EXCEPT !.pacts =
               <<IF re_is_match(pact_url.s) THEN PactSource_URL(pact_url.s)
                 ELSE PactSource_File(pact_url.s)>> \o @]
       ELSE [r EXCEPT !.warnings = <<pact_url>> \o @]

\* mutant: a base_url that does not parse is reported and the defaults kept
setup_provider_config_lenient(provider, base_url, kwargs) ==
  LET url == Url_parse(base_url)
      provider_info ==
        IF url.ok
        THEN [name |-> provider,
              protocol |-> url.scheme,
              host |-> IF url.host_str = <<>> THEN <<"l", "o", "c", "a", "l", "h", "o", "s", "t">> ELSE url.host_str[1],
              port |-> url.port,
              path |-> url.path]
        ELSE [name |-> provider, protocol |-> <<"h", "t", "t", "p">>,
              host |-> <<"l", "o", "c", "a", "l", "h", "o", "s", "t">>,
              port |-> <<<<"8", "0", "8", "0">>>>, path |-> <<"/">>]
      pact_urls == get_item(kwargs, "sources")
      r == IF pact_urls = <<>> THEN [pacts |-> <<>>, warnings |-> <<>>]
           ELSE IF pact_urls[1].t = "list" THEN pact_urls_loop(pact_urls[1].items)
           ELSE [pacts |-> <<>>, warnings |-> <<pact_urls[1]>>] IN
  [ok |-> TRUE, provider_info |-> provider_info, pacts |-> r.pacts,
   warnings |-> r.warnings]

\* setup_provider_config (verifier.rs 16-219)
setup_provider_config(provider, base_url, kwargs) ==
  LET url == Url_parse(base_url)
      provider_info ==
        [name |-> provider,
         protocol |-> url.scheme,
         host |-> IF url.host_str = <<>> THEN <<"l", "o", "c", "a", "l", "h", "o", "s", "t">> ELSE url.host_str[1],
         port |-> url.port,
         path |-> url.path]
      pact_urls == get_item(kwargs, "sources")
      r == IF pact_urls = <<>> THEN [pacts |-> <<>>, warnings |-> <<>>]
           ELSE IF pact_urls[1].t = "list" THEN pact_urls_loop(pact_urls[1].items)
           ELSE [pacts |-> <<>>, warnings |-> <<pact_urls[1]>>] IN
  IF ~url.ok THEN [ok |-> FALSE, e |-> "AttributeError"]
  ELSE [ok |-> TRUE, provider_info |-> provider_info, pacts |-> r.pacts,
        warnings |-> r.warnings]

\* what verify_provider leaves: engine is the (provider_info, source) the
\* verification engine was invoked with, if it was; warnings the entries of
\* sources the operator was warned about
Verified(err, val, engine, warnings) ==
  [op |-> "verify_provider", id |-> 0, err |-> err, msg |-> "", val |-> val,
   engine |-> engine, warnings |-> warnings]

\* verify_provider (lib.rs 509-536); result is what the engine returns
verify_provider(provider, base_url, options, result) ==
  IF options.t # "dict" THEN Verified("TypeError", PyNone, <<>>, <<>>)
  ELSE LET c == setup_provider_config(provider, base_url, options) IN
       IF ~c.ok THEN Verified(c.e, PyNone, <<>>, <<>>)
       ELSE Verified("", PyBool(result),
                     <<[provider_info |-> c.provider_info, source |-> c.pacts]>>,
                     c.warnings)

\* ------------------------ SpecVerifier: verify_provider, over its arguments
\* the number of entries of the sources list
MaxSources == 2

\* the base_url arguments
BaseUrl ==
  [not_a_url |-> <<"n", "o", "t", " ", "a", " ", "u", "r", "l">>,
   empty |-> <<>>,
   no_scheme |-> <<"/", "/", "h", "/", "p">>,
   http_no_host |-> <<"h", "t", "t", "p", ":", "/", "/">>,
   http_host_port_path |-> <<"h", "t", "t", "p", ":", "/", "/", "h", ":", "8", "1", "/", "p">>,
   https_host |-> <<"h", "t", "t", "p", "s", ":", "/", "/", "h">>,
   http_default_port |-> <<"h", "t", "t", "p", ":", "/", "/", "h", ":", "8", "0">>,
   host_port |-> <<"h", ":", "8", "1">>]

\* the strings among the entries of sources
SourceStr ==
  [broker_url |-> <<"h", "t", "t", "p", "s", ":", "/", "/", "b", "/", "1">>,
   pact_file |-> <<".", "/", "p">>,
   no_scheme_name |-> <<":", "/", "/", "x">>]

RECURSIVE SourceLists(_)
\* the lists of at most n entries: the three strings, and an int
SourceLists(n) ==
  IF n = 0 THEN {<<>>}
  ELSE LET shorter == SourceLists(n - 1) IN
       shorter \cup {<<e>> \o l : e \in {PyStr(SourceStr[k]) : k \in DOMAIN SourceStr}
                                         \cup {PyInt(1)},
                                  l \in shorter}

OptionsBags ==
  {PyNone, PyDict(<<>>),
   PyDict(<<<<PyStr("sources"), PyStr(SourceStr.broker_url)>>>>),
   PyDict(<<<<PyStr("sources"), PyTuple(<<PyStr(SourceStr.broker_url)>>)>>>>)}
  \cup {PyDict(<<<<PyStr("sources"), PyList(l)>>>>) : l \in SourceLists(MaxSources)}

VerifyProvider ==
  \E result \in BOOLEAN :
    /\ calls = 0
    /\ Call
    /\ ret' = verify_provider(scenario.provider, scenario.base_url,
                              scenario.options, result)
    /\ UNCHANGED <<pact, interaction, responded, servers, nextId, started>>

InitVerifier ==
  /\ Fresh
  /\ scenario \in [provider : {"P"},
                   base_url : {BaseUrl[k] : k \in DOMAIN BaseUrl},
                   options : OptionsBags]

SpecVerifier == InitVerifier /\ [][VerifyProvider]_vars

\* =================================================================== claims
Interactions == pact.interactions
Indices == 0..(Len(Interactions) - 1)
AccessorVerbs ==
  {"given", "upon_receiving", "with_request", "add_request_binary_file",
   "will_respond_with"}

\* C1: after every call of will_respond_with, whether it returned normally or
\* raised, the cursor is Idle (interaction = None).
C1_WillRespondWithAlwaysCloses ==
  ret.op = "will_respond_with" => interaction = <<>>

\* C2 (cursor invariant): the cursor, when set, is the last index of
\* pact.interactions; interactions are never removed or reordered and only the
\* open one changes; while Building no call appends; a call appends at most
\* one interaction, after the existing ones.
CursorOk ==
  \/ interaction = <<>>
  \/ /\ Len(interaction) = 1
     /\ Interactions # <<>>
     /\ interaction[1] = Len(Interactions) - 1

CursorStepOk ==
  /\ Len(Interactions') \in {Len(Interactions), Len(Interactions) + 1}
  /\ interaction # <<>> => Len(Interactions') = Len(Interactions)
  /\ \A k \in Indices : interaction # <<k>> => Interactions'[k + 1] = Interactions[k + 1]
  /\ pact'.consumer = pact.consumer /\ pact'.provider = pact.provider

\* a call that ran the accessor: every accessor verb but a given that raised
\* (given_cb never raises, so a given that raised did so on its params)
RanAccessor == ret'.op \in AccessorVerbs /\ ~(ret'.op = "given" /\ ret'.err # "")

C3_OpenInteractionMutatedInPlace ==
  [][(/\ interaction # <<>>
      /\ ret'.op \in {"given", "upon_receiving", "with_request",
                      "add_request_binary_file"})
       => /\ Len(Interactions') = Len(Interactions)
          /\ interaction' = interaction
          /\ \A k \in Indices :
               interaction # <<k>> => Interactions'[k + 1] = Interactions[k + 1]]_vars

\* C3 witness: with_request with the body "hello", twice: the second call
\* detected text/plain from the body the first one left on the one
\* interaction there is
C3_Witness ==
  /\ calls = 2
  /\ ret.op = "with_request"
  /\ ret.err = ""
  /\ Len(Interactions) = 1
  /\ interaction = <<0>>
  /\ Interactions[1].provider_states = <<>>
  /\ Interactions[1].description = ""
  /\ Interactions[1].request.method = "GET"
  /\ Interactions[1].request.path = "/items"
  /\ Interactions[1].request.body = Present(StrBytes("hello"), <<"text/plain">>)

\* C4 as claimed: every element of pact.interactions has had
\* will_respond_with applied to it.
C4_OnlyFinalizedInteractionsAreMembers == \A k \in Indices : k \in responded

\* C4 as amended: every element of pact.interactions but the open one (the
\* last) has had will_respond_with applied to it, and so has every element
\* but the last of a snapshot a mock server holds.
C4_AllButTheOpenOneFinalized ==
  /\ \A k \in Indices : k \in responded \/ interaction = <<k>>
  /\ \A e \in servers :
       \A k \in 0..(Len(e.pact.interactions) - 2) : k \in responded

\* C4 witness: one closed interaction, one open and never responded to, and a
\* snapshot of both in a running server
C4_Witness ==
  /\ Len(Interactions) = 2
  /\ interaction = <<1>>
  /\ responded = {0}
  /\ \E e \in servers : Len(e.pact.interactions) = 2

\* C5 (Scenario A): given, upon_receiving, with_request, will_respond_with on
\* a fresh builder leave one interaction with the description, the provider
\* state, the method, the path and the status handed in (for Scenario A:
\* "a request", "is-authenticated", GET /items, 200 and the JSON body
\* {"ok": true}), and the builder Idle.
C5_ScenarioA ==
  calls = 4 =>
    /\ Len(Interactions) = 1
    /\ interaction = <<>>
    /\ pact.consumer = "C" /\ pact.provider = "P"
    /\ Interactions[1].description = scenario.description
    /\ Len(Interactions[1].provider_states) = 1
    /\ Interactions[1].provider_states[1].name = scenario.state
    /\ Interactions[1].request.method = scenario.method
    /\ Interactions[1].request.path = scenario.path
    /\ Interactions[1].response.status = scenario.status
    /\ Interactions[1].response.body.k = "Present"
    /\ scenario = ScenarioA =>
         /\ Interactions[1].description = "a request"
         /\ Interactions[1].provider_states =
              <<[name |-> "is-authenticated", params |-> {}]>>
         /\ Interactions[1].request.method = "GET"
         /\ Interactions[1].request.path = "/items"
         /\ Interactions[1].response.status = 200
         /\ Interactions[1].response.body.bytes =
              JsonText(JObject({<<"ok", JBool(TRUE)>>}))

\* C5 witness: Scenario A played to its end
C5_Witness ==
  /\ scenario = ScenarioA
  /\ calls = 4
  /\ ret.op = "will_respond_with"
  /\ ret.err = ""
  /\ Len(Interactions) = 1

\* C6: start_mock_server, Idle or Building, bound or not, leaves the
\* builder's pact and cursor as they were.
C6_StartMockServerIsPureRead ==
  [][ret'.op = "start_mock_server" => pact' = pact /\ interaction' = interaction]_vars

\* C6 witness: a server started while an interaction was open
C6_Witness ==
  /\ ret.op = "start_mock_server"
  /\ ret.err = ""
  /\ interaction = <<0>>
  /\ \E e \in servers : e.id = ret.id /\ e.pact = pact

\* C7 (snapshot isolation): the pact of a started server is the builder's
\* pact at the moment of the start, a builder verb changes no server, and no
\* call changes the pact a registered server holds.
C7_SnapshotIsolation ==
  [][/\ (ret'.op = "start_mock_server" /\ ret'.err = "")
          => \E e \in servers' : e.id = ret'.id /\ e.pact = pact
     /\ ret'.op \in AccessorVerbs => servers' = servers
     /\ \A e \in servers : \A f \in servers' : f.id = e.id => f.pact = e.pact]_vars

\* C7 witness: the interaction that was open when the server started has
\* been changed since, and the server's pact has not
C7_Witness ==
  /\ ret.op \in AccessorVerbs
  /\ Len(Interactions) = 1
  /\ \E e \in servers :
       /\ Len(e.pact.interactions) = 1
       /\ e.pact.interactions[1] # Interactions[1]

\* C8: shutdown returns True exactly when its id is registered, never raises,
\* removes that entry and only that entry.
C8_Shutdown ==
  [][ret'.op = "shutdown" =>
       /\ ret'.err = ""
       /\ ret'.val = PyBool(ret'.id \in Ids(servers))
       /\ ret'.id \notin Ids(servers')
       /\ servers' = {e \in servers : e.id # ret'.id}]_vars

\* C8 witness: the second shutdown of a handle start_mock_server returned
C8_Witness ==
  /\ ret.op = "shutdown"
  /\ ret.val = PyBool(FALSE)
  /\ \E n \in 1..Len(started) : started[n] = ret.id

\* C9: get_test_result and write_pact_file on an id that is not registered
\* raise the error that names the missing id, and an id once produced and not
\* registered is never registered again.
C9_NotFoundIsAnError ==
  [][/\ (ret'.op \in {"get_test_result", "write_pact_file"}
           /\ ret'.id \notin Ids(servers))
          => /\ ret'.err = "TypeError"
             /\ ret'.msg = "there is no mock server with id"
             /\ ret'.val = PyNone
     /\ \A id \in 1..(nextId - 1) :
          id \notin Ids(servers) => id \notin Ids(servers')]_vars

\* C9 witness: get_test_result raised on a handle after its shutdown
C9_Witness ==
  /\ ret.op = "get_test_result"
  /\ ret.err = "TypeError"
  /\ \E n \in 1..Len(started) : started[n] = ret.id

\* C10: no two started instances have the same id, running or shut down.
C10_IdsUnique ==
  /\ \A m, n \in 1..Len(started) : started[m] = started[n] => m = n
  /\ Ids(servers) \subseteq {started[n] : n \in 1..Len(started)}
  /\ Cardinality(Ids(servers)) = Cardinality(servers)

\* C10 witness: a server started after an earlier one was shut down
C10_Witness ==
  /\ Len(started) = 2
  /\ started[1] \notin Ids(servers)
  /\ started[2] \in Ids(servers)

\* C11: a start_mock_server that raised returned no handle and left the
\* registry as it was (the same entries under the same ids); a start that did
\* not raise returned the handle of an id it registered.
C11_FailedStartRegistersNothing ==
  [][ret'.op = "start_mock_server" =>
       IF ret'.err # ""
       THEN /\ ret'.val = PyNone
            /\ servers' = servers
            /\ Ids(servers') = Ids(servers)
            /\ started' = started
       ELSE /\ ret'.val = Handle(ret'.id)
            /\ ret'.id \in Ids(servers')]_vars

\* C11 witness: a start failed to bind while another server was running
C11_Witness ==
  /\ ret.op = "start_mock_server"
  /\ ret.err = "TypeError"
  /\ ret.val = PyNone
  /\ Cardinality(servers) = 1
  /\ ret.id \notin Ids(servers)

\* C19: get_test_result on a registered id does not raise; it returns None
\* exactly when the instance has recorded no mismatch, and otherwise a list
\* with one record per recorded mismatch, in the recorded order; the registry
\* and the recorded mismatches are as before the call.
C19_GetTestResult ==
  [][(ret'.op = "get_test_result" /\ ret'.id \in Ids(servers)) =>
       LET mismatches == Entry(servers, ret'.id).mismatches IN
       /\ ret'.err = ""
       /\ (ret'.val = PyNone) <=> (mismatches = <<>>)
       /\ mismatches # <<>> =>
            /\ ret'.val.t = "list"
            /\ Len(ret'.val.items) = Len(mismatches)
            /\ \A n \in 1..Len(mismatches) :
                 ret'.val.items[n] = PyDict(<<<<PyStr("type"), PyStr(mismatches[n])>>>>)
       /\ servers' = servers]_vars

\* C19 witness: the result of a server that recorded two mismatches of
\* different kinds
C19_Witness ==
  /\ ret.op = "get_test_result"
  /\ ret.val = PyList(<<PyDict(<<<<PyStr("type"), PyStr("RequestMismatch")>>>>),
                        PyDict(<<<<PyStr("type"), PyStr("RequestNotFound")>>>>)>>)
  /\ \E e \in servers :
       e.id = ret.id /\ e.mismatches = <<"RequestMismatch", "RequestNotFound">>

\* the value taxonomy: null, booleans, integers, floats, strings, sequences
\* and string-keyed mappings of such values
RECURSIVE InTaxonomy(_)
InTaxonomy(v) ==
  IF v.t \in {"NoneType", "bool", "int", "float", "str"} THEN TRUE
  ELSE IF v.t \in {"list", "tuple"} THEN
    \A n \in 1..Len(v.items) : InTaxonomy(v.items[n])
  ELSE IF v.t = "dict" THEN
    \A n \in 1..Len(v.items) :
      v.items[n][1].t = "str" /\ InTaxonomy(v.items[n][2])
  ELSE FALSE

\* observational equality: the same scalar kind and value, the same elements
\* in the same order, the same keys with equal values
RECURSIVE ObsEq(_, _)
ObsEq(v, w) ==
  IF v.t \in {"list", "tuple"} THEN
    /\ w.t \in {"list", "tuple"}
    /\ Len(w.items) = Len(v.items)
    /\ \A n \in 1..Len(v.items) : ObsEq(v.items[n], w.items[n])
  ELSE IF v.t = "dict" THEN
    /\ w.t = "dict"
    /\ {it[1] : it \in {w.items[n] : n \in 1..Len(w.items)}}
         = {it[1] : it \in {v.items[n] : n \in 1..Len(v.items)}}
    /\ \A m \in 1..Len(v.items), n \in 1..Len(w.items) :
         v.items[m][1] = w.items[n][1] => ObsEq(v.items[m][2], w.items[n][2])
  ELSE v = w

\* C17 (round trip): for every value v of the taxonomy pyobj_to_json(v)
\* succeeds, and json_to_pyobj of its result is observationally equal to v.
C17_RoundTrip ==
  /\ (ret.op = "pyobj_to_json" /\ InTaxonomy(scenario.value)) => ret.err = ""
  /\ ret.op = "json_to_pyobj" => ObsEq(ret.val, scenario.value)

\* C18 (totality): pyobj_to_json returns a JSON value for every value of the
\* taxonomy, null nested in a sequence or a mapping included, and raises
\* exactly for the values that contain another shape.
C18_TotalOverTaxonomy ==
  ret.op = "pyobj_to_json" => (ret.err = "" <=> InTaxonomy(scenario.value))

\* C20: pyobj_to_json of an int never raises: an int within the i64 range
\* becomes the JSON integer of the same value, an int outside it a JSON float;
\* a bool becomes a JSON boolean, never an integer.
C20_IntegerNeverFailsOnRange ==
  (ret.op = "pyobj_to_json" /\ scenario.value.t \in {"int", "bool"}) =>
    /\ ret.err = ""
    /\ scenario.value.t = "bool" => ret.val = JBool(scenario.value.b)
    /\ (scenario.value.t = "int" /\ "n" \in DOMAIN scenario.value)
         => ret.val = JInt(scenario.value.n)
    /\ scenario.value = PyHugeInt => ret.val.j = "F64"

\* C15: with a base_url that does not parse as an absolute URL ("not a url",
\* the empty string, "//h/p" without a scheme, "http://" without a host)
\* verify_provider raises the invalid-base-URL error whatever the sources
\* option holds: no descriptor and no source list come out, no entry of
\* sources is warned about, and the verification engine is not invoked.
C15_InvalidBaseUrlAborts ==
  (/\ ret.op = "verify_provider"
   /\ scenario.options.t = "dict"
   /\ scenario.base_url \in {BaseUrl.not_a_url, BaseUrl.empty, BaseUrl.no_scheme,
                             BaseUrl.http_no_host})
    => /\ ret.err = "AttributeError"
       /\ ret.val = PyNone
       /\ ret.engine = <<>>
       /\ ret.warnings = <<>>

\* C15 witness: Scenario C ("not a url") with a sources list that holds an
\* entry that is not a string
C15_Witness ==
  /\ ret.op = "verify_provider"
  /\ ret.err = "AttributeError"
  /\ scenario.base_url = BaseUrl.not_a_url
  /\ scenario.options =
       PyDict(<<<<PyStr("sources"), PyList(<<PyStr(SourceStr.broker_url), PyInt(1)>>)>>>>)

\* the source an entry of the sources list is to become: none for an entry
\* that is not a string
C16_Source(entry) ==
  IF entry = PyStr(SourceStr.broker_url) THEN <<[kind |-> "URL", s |-> SourceStr.broker_url, auth |-> <<>>]>>
  ELSE IF entry = PyStr(SourceStr.pact_file) THEN <<[kind |-> "File", s |-> SourceStr.pact_file]>>
  ELSE IF entry = PyStr(SourceStr.no_scheme_name) THEN <<[kind |-> "File", s |-> SourceStr.no_scheme_name]>>
  ELSE <<>>

RECURSIVE C16_Sources(_)
C16_Sources(entries) ==
  IF entries = <<>> THEN <<>>
  ELSE C16_Source(Head(entries)) \o C16_Sources(Tail(entries))

\* C16: with a base_url that parses, verify_provider does not raise and hands
\* the engine the string entries of options["sources"] in their order, an
\* entry matching ^\w+:// as a URL source and any other as a File source;
\* entries that are not strings are skipped; an absent sources, or one that
\* is not a list, gives the empty source list.
C16_SourceList ==
  (/\ ret.op = "verify_provider"
   /\ scenario.options.t = "dict"
   /\ scenario.base_url \in {BaseUrl.http_host_port_path, BaseUrl.https_host,
                             BaseUrl.http_default_port, BaseUrl.host_port})
    => /\ ret.err = ""
       /\ ret.val \in {PyBool(TRUE), PyBool(FALSE)}
       /\ Len(ret.engine) = 1
       /\ ret.engine[1].source =
            IF scenario.options.items = <<>> THEN <<>>
            ELSE IF scenario.options.items[1][2].t # "list" THEN <<>>
            ELSE C16_Sources(scenario.options.items[1][2].items)

\* C16 witness: Scenario D, the broker URL and the pact file in one list
C16_Witness ==
  /\ ret.op = "verify_provider"
  /\ ret.err = ""
  /\ scenario.options =
       PyDict(<<<<PyStr("sources"), PyList(<<PyStr(SourceStr.pact_file), PyStr(SourceStr.broker_url)>>)>>>>)
  /\ Len(ret.engine) = 1
  /\ ret.engine[1].source = <<PactSource_File(SourceStr.pact_file), PactSource_URL(SourceStr.broker_url)>>

\* C12 (mutual exclusion): at most one thread is inside a registry operation
\* at a time, and the map is the one a serial order of the operations gives:
\* a start that is about to return its handle finds its id registered (no
\* lost registration), a shutdown that is about to return finds its id gone
\* (none removed and still findable), every registered id is the id of a
\* start that went through, under one entry only; an entry appears only by
\* the start that holds the lock and goes only by the shutdown that holds it.
C12_MutualExclusion ==
  /\ [](Cardinality({c \in Callers : InCriticalSection(c)}) <= 1)
  /\ [](\A c \in Callers :
          /\ InCriticalSection(c) => lock = <<c>>
          /\ (threads[c].pc = "unlock" /\ threads[c].op = "start_mock_server"
                 /\ ret.err = "") => threads[c].id \in Ids(servers)
          /\ (threads[c].pc = "unlock" /\ threads[c].op = "shutdown")
               => threads[c].id \notin Ids(servers))
  /\ [](/\ Ids(servers) \subseteq {started[n] : n \in 1..Len(started)}
        /\ Cardinality(Ids(servers)) = Cardinality(servers))
  /\ [][/\ \A id \in Ids(servers') \ Ids(servers) :
            \E c \in Callers :
              lock = <<c>> /\ threads[c].op = "start_mock_server" /\ threads[c].id = id
        /\ \A id \in Ids(servers) \ Ids(servers') :
            \E c \in Callers :
              lock = <<c>> /\ threads[c].op = "shutdown" /\ threads[c].id = id]_vars

\* C12 witness: one thread waits for the lock with the shutdown of a server
\* while the other, inside start_mock_server, is about to register a second
C12_Witness ==
  \E c, d \in Callers :
    /\ threads[c].pc = "lock" /\ threads[c].op = "shutdown"
    /\ threads[c].id \in Ids(servers)
    /\ threads[d].pc = "insert"
    /\ lock = <<d>>

\* a thread is at its external I/O: the bind of the engine, or the write of
\* the pact file of a server that was found
DoingIO(c) ==
  \/ threads[c].pc = "bind"
  \/ threads[c].pc = "write" /\ threads[c].id \in Ids(servers)

\* C13: no thread binds a port or writes a pact file while it holds the
\* registry lock, and no thread waits for the lock while another does.
C13_NoIOUnderLock ==
  \A c \in Callers :
    DoingIO(c) =>
      /\ lock # <<c>>
      /\ \A d \in Callers : threads[d].pc # "lock"

\* C14: every registry operation a thread has started returns, its lock is
\* released, and a thread that waits for the lock gets it.
C14_EveryOperationReturns ==
  \A c \in Callers :
    /\ (threads[c].pc # "idle") ~> (threads[c].pc = "idle")
    /\ (threads[c].pc = "lock") ~> (lock = <<c>>)
    /\ (lock = <<c>>) ~> (lock # <<c>>)

\* C14 witness: a thread waits for the lock while the holder is about to
\* return the error of a bind that failed
C14_Witness ==
  \E c, d \in Callers :
    /\ threads[c].pc = "lock"
    /\ threads[d].pc = "unlock" /\ threads[d].op = "start_mock_server"
    /\ ret.err = "TypeError" /\ ret.id = threads[d].id
    /\ lock = <<d>>

\* the verb of the scenario has been called
Played == calls = (IF scenario.prior THEN 2 ELSE 1)

\* the interaction the verb of the scenario was called on
Subject == pact.interactions[1]

\* the non-JSON content type the caller declared on the request before the
\* body is looked at: in the headers of the call, or in an earlier call when
\* the call passes no headers
DeclaredNonJson ==
  IF scenario.headers = Arg.h_text THEN {"text/plain"}
  ELSE IF /\ scenario.headers = PyNone
          /\ scenario.prior_headers \in {Arg.h_text, Arg.h_lower}
       THEN {"text/plain"}
  ELSE {}

\* C21: after with_request with a mapping or sequence body, a non-JSON
\* Content-Type header the caller declared is still the request's
\* Content-Type, and "application/json" is recorded only when none was
\* declared.
C21_DeclaredContentTypeKept ==
  (/\ Played
   /\ scenario.verb = "with_request"
   /\ ret.err = ""
   /\ scenario.body \in {OkBody, Arg.list}
   /\ ~(scenario.headers = PyNone /\ scenario.prior_headers = Arg.h_hal))
  => lookup_content_type(Subject.request.headers) =
       (IF DeclaredNonJson # {} THEN DeclaredNonJson ELSE {"application/json"})

\* C22: the response will_respond_with leaves is the one the same call leaves
\* on an interaction whose request declares no Content-Type.
C22_ResponseIgnoresRequestContentType ==
  (/\ Played
   /\ scenario.verb = "will_respond_with"
   /\ ret.err = "")
  => Subject.response \in
       {r.i.response :
          r \in will_respond_with_cb(DefaultInteraction, PyInt(200),
                                     scenario.headers, scenario.body)}

\* C23: a str query or header value is stored as a one-element sequence; a
\* value that is not a str leaves no entry under its key, and the call
\* succeeds.
C23_NonStringValuesDropped ==
  Played =>
    /\ (scenario.query = Arg.q_str /\ ret.err = "")
         => Subject.request.query = <<{<<"q", <<"1">>>>}>>
    /\ (scenario.headers = Arg.h_text /\ ret.err = "" /\ scenario.body \in {PyNone, PyStr("hello")})
         => (IF scenario.verb = "will_respond_with"
             THEN Subject.response.headers ELSE Subject.request.headers)
            = <<{<<"Content-Type", <<"text/plain">>>>}>>
    /\ (scenario.query = Arg.q_int /\ scenario.headers # Arg.h_bad
          /\ scenario.body # PyObject /\ scenario.file \in ReadableFiles)
         => /\ ret.err = ""
            /\ Subject.request.query # <<>> => "q" \notin MapKeys(Subject.request.query[1])
    /\ (scenario.headers = Arg.h_int /\ scenario.query # Arg.q_bad
          /\ scenario.body # PyObject /\ scenario.file \in ReadableFiles)
         => /\ ret.err = ""
            /\ LET h == IF scenario.verb = "will_respond_with"
                        THEN Subject.response.headers ELSE Subject.request.headers IN
               h # <<>> => "X" \notin MapKeys(h[1])

\* C23, amended: a str query or header value is stored as a one-element
\* sequence; a value that is not a str is stored under its key as an empty
\* sequence, and the call succeeds.
C23_NonStringValuesStoredEmpty ==
  Played =>
    /\ (scenario.query = Arg.q_str /\ ret.err = "")
         => Subject.request.query = <<{<<"q", <<"1">>>>}>>
    /\ (scenario.headers = Arg.h_text /\ ret.err = "" /\ scenario.body \in {PyNone, PyStr("hello")})
         => (IF scenario.verb = "will_respond_with"
             THEN Subject.response.headers ELSE Subject.request.headers)
            = <<{<<"Content-Type", <<"text/plain">>>>}>>
    /\ (scenario.query = Arg.q_int /\ scenario.headers # Arg.h_bad
          /\ scenario.body # PyObject /\ scenario.file \in ReadableFiles)
         => /\ ret.err = ""
            /\ Subject.request.query = <<{<<"q", <<>>>>}>>
    /\ (scenario.headers = Arg.h_int /\ scenario.query # Arg.q_bad
          /\ scenario.body # PyObject /\ scenario.file \in ReadableFiles)
         => /\ ret.err = ""
            /\ LET h == IF scenario.verb = "will_respond_with"
                        THEN Subject.response.headers ELSE Subject.request.headers IN
               h # <<>> /\ <<"X", <<>>>> \in h[1]

\* C23 witness: with_request has returned without error after a headers dict
\* whose one value is an int and a query dict whose one value is a str
C23_Witness ==
  /\ Played
  /\ scenario.verb = "with_request"
  /\ scenario.headers = Arg.h_int
  /\ scenario.query = Arg.q_str
  /\ ret.op = "with_request" /\ ret.err = ""
  /\ Subject.request.headers = <<{<<"X", <<>>>>}>>
  /\ Subject.request.query = <<{<<"q", <<"1">>>>}>>

\* C24: a verb that fails because query or headers is neither a mapping nor
\* null leaves the pact and the cursor as they were before the call.
C24_RejectedBeforeMutation ==
  [][(/\ calls' = (IF scenario.prior THEN 2 ELSE 1)
      /\ (scenario.query = Arg.q_bad \/ scenario.headers = Arg.h_bad))
     => /\ ret'.err = "TypeError"
        /\ pact' = pact
        /\ interaction' = interaction]_vars

\* C25: every body stored as Present carries a content type.
C25_PresentBodyHasContentType ==
  (/\ Played
   /\ scenario.verb \in {"with_request", "will_respond_with"}
   /\ ret.err = ""
   /\ scenario.body \in {OkBody, Arg.list, PyStr("hello")})
  => LET b == IF scenario.verb = "with_request"
              THEN Subject.request.body ELSE Subject.response.body IN
     b.k = "Present" /\ b.ct # <<>>

\* C27: add_request_binary_file on a readable file stores the file's bytes,
\* adds the ContentType rule with its content_type argument at "$" in the body
\* category, and sets the Content-Type header to that argument unless one is
\* present, which it keeps; on an unreadable file it fails once and leaves the
\* body and the body's rules as they were.
C27_BinaryFile ==
  [][(/\ calls' = (IF scenario.prior THEN 2 ELSE 1)
      /\ scenario.verb = "add_request_binary_file"
      /\ scenario.query # Arg.q_bad /\ scenario.headers # Arg.h_bad)
     => LET before == Target.request
            after == pact'.interactions[1].request
            declared == IF scenario.headers = PyNone THEN before.headers
                        ELSE after.headers IN
        IF scenario.file \in ReadableFiles
        THEN /\ ret'.err = ""
             /\ after.body.k = "Present"
             /\ after.body.bytes = FileBytes(scenario.file)
             /\ <<"body", "$", <<"ContentType", "image/png">>>> \in after.matching_rules.rules
             /\ lookup_content_type(after.headers) =
                  (IF scenario.headers = Arg.h_text
                      \/ (scenario.headers = PyNone /\ has_header(before, "Content-Type"))
                   THEN lookup_content_type(declared)
                   ELSE {"image/png"})
        ELSE /\ ret'.err = "TypeError"
             /\ calls' = calls + 1
             /\ after.body = before.body
             /\ after.matching_rules = before.matching_rules]_vars

\* C27, amended: as C27, but the Content-Type header set when none is present
\* is "application/octet-stream".
C27_BinaryFileOctetStream ==
  [][(/\ calls' = (IF scenario.prior THEN 2 ELSE 1)
      /\ scenario.verb = "add_request_binary_file"
      /\ scenario.query # Arg.q_bad /\ scenario.headers # Arg.h_bad)
     => LET before == Target.request
            after == pact'.interactions[1].request
            declared == IF scenario.headers = PyNone THEN before.headers
                        ELSE after.headers IN
        IF scenario.file \in ReadableFiles
        THEN /\ ret'.err = ""
             /\ after.body.k = "Present"
             /\ after.body.bytes = FileBytes(scenario.file)
             /\ <<"body", "$", <<"ContentType", "image/png">>>> \in after.matching_rules.rules
             /\ lookup_content_type(after.headers) =
                  (IF scenario.headers = Arg.h_text
                      \/ (scenario.headers = PyNone /\ has_header(before, "Content-Type"))
                   THEN lookup_content_type(declared)
                   ELSE {"application/octet-stream"})
        ELSE /\ ret'.err = "TypeError"
             /\ calls' = calls + 1
             /\ after.body = before.body
             /\ after.matching_rules = before.matching_rules]_vars

\* C27 witness: add_request_binary_file has stored a readable file on a
\* request that had no Content-Type header
C27_Witness ==
  /\ Played
  /\ scenario.verb = "add_request_binary_file"
  /\ ~scenario.prior
  /\ scenario.headers = PyNone
  /\ ret.op = "add_request_binary_file" /\ ret.err = ""
  /\ Subject.request.body = Present(FileBytes("logo.png"), <<>>)
  /\ Subject.request.headers = <<{<<"Content-Type", <<"application/octet-stream">>>>}>>

\* the headers the message holds once the headers argument has been stored
C26_Headers(before) ==
  IF scenario.headers = Arg.h_text THEN <<{<<"Content-Type", <<"text/plain">>>>}>>
  ELSE IF scenario.headers = Arg.h_int THEN <<{<<"X", <<>>>>}>>
  ELSE before.headers

\* C26: in with_request and will_respond_with a str body is stored as its
\* literal bytes and adds no matching rule, generator or Content-Type header;
\* a None body leaves the stored body as it was; a body that is neither a
\* dict, a list, a str nor None makes the verb fail with the unsupported body
\* type error and leaves the stored body, the matching rules and the
\* generators as they were.
C26_BodyDispatch ==
  [][(/\ calls' = (IF scenario.prior THEN 2 ELSE 1)
      /\ scenario.verb \in {"with_request", "will_respond_with"}
      /\ scenario.query # Arg.q_bad /\ scenario.headers # Arg.h_bad)
     => LET before == IF scenario.verb = "with_request"
                      THEN Target.request ELSE Target.response
            after == IF scenario.verb = "with_request"
                     THEN pact'.interactions[1].request
                     ELSE pact'.interactions[1].response IN
        /\ scenario.body = PyStr("hello")
             => /\ ret'.err = ""
                /\ after.body.k = "Present"
                /\ after.body.bytes = StrBytes("hello")
                /\ after.matching_rules = before.matching_rules
                /\ after.generators = before.generators
                /\ after.headers = C26_Headers(before)
        /\ scenario.body = PyNone
             => /\ ret'.err = ""
                /\ after.body = before.body
        /\ scenario.body = PyObject
             => /\ ret'.err = "TypeError"
                /\ after.body = before.body
                /\ after.matching_rules = before.matching_rules
                /\ after.generators = before.generators]_vars

\* C26 witness: with_request has failed on a body that is an arbitrary object,
\* on a request that holds the str body of an earlier call
C26_Witness ==
  /\ Played
  /\ scenario.verb = "with_request"
  /\ scenario.body = PyObject
  /\ scenario.prior /\ scenario.prior_body = PyStr("hello")
  /\ scenario.prior_headers = PyNone /\ scenario.headers = PyNone
  /\ ret.op = "with_request" /\ ret.err = "TypeError"
  /\ Subject.request.body = Present(StrBytes("hello"), <<>>)

====
